---- MODULE Spec2Model ----
(***************************************************************************)
(* Model of paper_tactics/entities/game.py: the Game entity of a           *)
(* two-player territory game (bases, units, walls, trenches, fog of war,   *)
(* multi-move rounds, deathmatch escalation and a scripted opponent).      *)
(***************************************************************************)
EXTENDS Integers, FiniteSets, Sequences, TLC

VARIABLES
    pc,              \* "constructed" before init(), "ready" after it
    preferences,     \* Game.preferences (turn_count is mutated by deathmatch)
    turns_left,      \* Game.turns_left
    active_player,   \* Game.active_player  (a Player record)
    passive_player,  \* Game.passive_player (a Player record)
    trenches,        \* Game.trenches
    ret,             \* what the last call returned / raised
    resolved,        \* the _make_turn calls of the last accepted make_turn
    moves,           \* number of accepted make_turn calls so far
    streak           \* consecutive accepted make_turn calls by the last mover

vars == <<pc, preferences, turns_left, active_player, passive_player,
          trenches, ret, resolved, moves, streak>>

game_vars == <<preferences, turns_left, active_player, passive_player, trenches>>

(***************************************************************************)
(* Bounds of the exploration.                                              *)
(***************************************************************************)
MaxSize == 3        \* largest board edge explored
MaxTurnCount == 2   \* largest initial preferences.turn_count explored
MaxMoves == 3       \* accepted make_turn calls explored per game
MaxOptions == 2     \* how many optional game modes are switched on together
MaxBoardSize == 4   \* largest board edge explored by SpecBoard
MaxBoardMoves == 1  \* accepted make_turn calls explored by SpecBoard
FullGameSize == 2   \* largest board edge whose games SpecEnd plays to the end

PlayerIds == {"p1", "p2"}

Sizes == 2..MaxSize
Densities == {0, 50, 100}     \* trench_density_percent values explored
RandintOutcomes == {1, 100}   \* outcomes of randint(1, 100) explored

Board(size) == (1..size) \X (1..size)

(***************************************************************************)
(* Collaborators of game.py: Player, GamePreferences geometry.             *)
(***************************************************************************)
Player(id) ==
    [id |-> id, units |-> {}, walls |-> {}, reachable |-> {},
     visible_opponent |-> {}, visible_terrain |-> {}, is_defeated |-> FALSE]

can_win(player) == ~player.is_defeated

get_adjacent_cells(prefs, cell) ==
    {c \in Board(prefs.size) :
        /\ c # cell
        /\ c[1] - cell[1] \in {-1, 0, 1}
        /\ c[2] - cell[2] \in {-1, 0, 1}}

get_symmetric_cell(prefs, cell) ==
    <<prefs.size - cell[1] + 1, prefs.size - cell[2] + 1>>

OptionCount(prefs) ==
    Cardinality({o \in {"is_deathmatch", "is_against_bot", "is_double_base",
                        "is_with_random_bases", "is_visibility_applied"} :
                    prefs[o]})
    + (IF prefs.trench_density_percent > 0 THEN 1 ELSE 0)

PreferencesOfSizes(sizes) ==
    {prefs \in [size : sizes,
                turn_count : 1..MaxTurnCount,
                is_deathmatch : BOOLEAN,
                is_against_bot : BOOLEAN,
                is_double_base : BOOLEAN,
                is_with_random_bases : BOOLEAN,
                is_visibility_applied : BOOLEAN,
                trench_density_percent : Densities] :
        OptionCount(prefs) <= MaxOptions}

AllPreferences == PreferencesOfSizes(Sizes)

BoardPreferences == PreferencesOfSizes(2..MaxBoardSize)

(***************************************************************************)
(* Game._rebuild_reachable_set: returns the player record after the call.  *)
(***************************************************************************)
AdjacentTo(sources, prefs) ==
    UNION {get_adjacent_cells(prefs, s) : s \in sources}

\* lines 151-157: what one pass over the sources records under fog of war
RecordSeenWithoutMirror(player, adj, tr, prefs) ==
    IF prefs.is_visibility_applied
    THEN [player EXCEPT
            !.visible_opponent = @ \cup adj,
            !.visible_terrain = @ \cup (adj \cap tr)]
    ELSE player

RecordSeen(player, adj, tr, prefs) ==
    IF prefs.is_visibility_applied
    THEN [player EXCEPT
            !.visible_opponent = @ \cup adj,
            !.visible_terrain = @ \cup (adj \cap tr)
                \cup {get_symmetric_cell(prefs, c) : c \in adj \cap tr}]
    ELSE player

\* lines 158-161: the player's walls met by a pass, sources of the next one
NewSources(player, sources, adj) ==
    {c \in adj : c \notin sources /\ c \in player.walls}

\* ReachableTargets without the opponent-wall test
ReachableTargetsThroughWalls(player, opponent, sources, adj) ==
    {c \in adj :
        /\ c \notin sources
        /\ c \notin player.walls
        /\ c \notin player.units}

\* lines 158-163: the cells a pass adds to player.reachable
ReachableTargets(player, opponent, sources, adj) ==
    {c \in adj :
        /\ c \notin sources
        /\ c \notin player.walls
        /\ c \notin opponent.walls /\ c \notin player.units}

\* a rebuild that stops after its first pass
RebuildSinglePass(player, opponent, sources, tr, prefs) ==
    LET adj == AdjacentTo(sources, prefs)
    IN  [RecordSeen(player, adj, tr, prefs) EXCEPT
            !.reachable = @ \cup ReachableTargets(player, opponent, sources, adj)]

RECURSIVE RebuildPass(_, _, _, _, _)
RebuildPass(player, opponent, sources, tr, prefs) ==
    LET adj == AdjacentTo(sources, prefs)
        seen == RecordSeen(player, adj, tr, prefs)
        new_sources == NewSources(player, sources, adj)
        after == [seen EXCEPT
                    !.reachable = @ \cup ReachableTargets(player, opponent, sources, adj)]
    IN  IF new_sources = {}
        THEN after
        ELSE RebuildPass(after, opponent, sources \cup new_sources, tr, prefs)

_rebuild_reachable_set(player, opponent, tr, prefs) ==
    LET cleared == [player EXCEPT !.reachable = {}]
        pruned == IF prefs.is_visibility_applied
                  THEN [cleared EXCEPT !.visible_opponent =
                            {c \in @ : c \in opponent.units \/ c \in opponent.walls}
                            \cup {c \in opponent.walls : c \notin tr}]
                  ELSE cleared
    IN  RebuildPass(pruned, opponent, player.units, tr, prefs)

(***************************************************************************)
(* Game._make_turn: returns the two player records after the call.         *)
(***************************************************************************)
\* Capture that leaves the captured cell in the opponent's units
CaptureKeepsUnit(cell, player, opponent) ==
    [player |-> [player EXCEPT !.walls = @ \cup {cell}],
     opponent |-> opponent]

\* Capture that takes the unit but builds no wall
CaptureWithoutWall(cell, player, opponent) ==
    [player |-> player,
     opponent |-> [opponent EXCEPT !.units = @ \ {cell}]]

\* lines 124-125
Capture(cell, player, opponent) ==
    [player |-> [player EXCEPT !.walls = @ \cup {cell}],
     opponent |-> [opponent EXCEPT !.units = @ \ {cell}]]

\* ClaimTrench that leaves the opponent's reachable set alone
ClaimTrenchWithoutDiscard(cell, player, opponent) ==
    [player |-> [player EXCEPT !.walls = @ \cup {cell}],
     opponent |-> opponent]

\* ClaimTrench that forgets the wall
ClaimTrenchWithoutWall(cell, player, opponent) ==
    [player |-> player,
     opponent |-> [opponent EXCEPT !.reachable = @ \ {cell}]]

\* lines 128-129
ClaimTrench(cell, player, opponent) ==
    [player |-> [player EXCEPT !.walls = @ \cup {cell}],
     opponent |-> [opponent EXCEPT !.reachable = @ \ {cell}]]

\* line 131
ExpandIntoWalls(cell, player, opponent) ==
    [player |-> [player EXCEPT !.walls = @ \cup {cell}],
     opponent |-> opponent]

Expand(cell, player, opponent) ==
    [player |-> [player EXCEPT !.units = @ \cup {cell}],
     opponent |-> opponent]

_make_turn(cell, player, opponent, tr, prefs) ==
    IF cell \in opponent.units
    THEN LET c == Capture(cell, player, opponent)
             o == _rebuild_reachable_set(c.opponent, c.player, tr, prefs)
         IN  [player |-> _rebuild_reachable_set(c.player, o, tr, prefs),
              opponent |-> o]
    ELSE LET c == IF cell \in tr
                  THEN ClaimTrench(cell, player, opponent)
                  ELSE Expand(cell, player, opponent)
         IN  [player |-> _rebuild_reachable_set(c.player, c.opponent, tr, prefs),
              opponent |-> c.opponent]

(***************************************************************************)
(* Game._init_players: the two player records after base placement.        *)
(* first_base_y and second_base_y are the values of the two conditional    *)
(* expressions (a randint outcome, or 1).                                  *)
(***************************************************************************)
FirstBaseYs(prefs) ==
    IF prefs.is_with_random_bases THEN 1..((prefs.size + 1) \div 2) ELSE {1}

SecondBaseYs(prefs) ==
    IF prefs.is_with_random_bases THEN ((prefs.size \div 2) + 1)..prefs.size ELSE {1}

_init_players(active, passive, prefs, first_base_y, second_base_y) ==
    LET edge == prefs.size
        a1 == [active EXCEPT !.units = @ \cup {<<1, first_base_y>>}]
        p1 == [passive EXCEPT !.units = @ \cup {<<edge, edge - first_base_y + 1>>}]
    IN  IF prefs.is_double_base
        THEN [active |-> [a1 EXCEPT !.units = @ \cup {<<1, second_base_y>>}],
              passive |-> [p1 EXCEPT !.units =
                              @ \cup {<<edge, edge - second_base_y + 1>>}]]
        ELSE [active |-> a1, passive |-> p1]

(***************************************************************************)
(* Game._generate_trenches.  The cells for which randint is evaluated are  *)
(* the candidates; draw maps each of them to its randint(1, 100) outcome.  *)
(***************************************************************************)
TrenchCandidates(active, passive, prefs) ==
    LET size == prefs.size
        half == (size + 1) \div 2
    IN  IF prefs.trench_density_percent = 0
        THEN {}
        ELSE {<<x + 1, y + 1>> : <<x, y>> \in
                {xy \in (0..(size - 1)) \X (0..(half - 1)) :
                    /\ (xy[2] < half - 1 \/ xy[1] < half)
                    /\ <<xy[1] + 1, xy[2] + 1>> \notin active.units
                    /\ <<xy[1] + 1, xy[2] + 1>> \notin passive.units}}

\* trenches paired with their mirror across the vertical axis only
_generate_trenches_axis_mirror(active, passive, prefs, draw) ==
    LET size == prefs.size
        hit == {c \in TrenchCandidates(active, passive, prefs) :
                    draw[c] <= prefs.trench_density_percent}
    IN  hit \cup {<<size - (c[1] - 1), c[2]>> : c \in hit}

_generate_trenches(active, passive, prefs, draw) ==
    LET size == prefs.size
        hit == {c \in TrenchCandidates(active, passive, prefs) :
                    draw[c] <= prefs.trench_density_percent}
    IN  hit \cup {<<size - (c[1] - 1), size - (c[2] - 1)>> : c \in hit}

(***************************************************************************)
(* Game.get_view: the GameView returned, together with the two real player *)
(* records as the call leaves them (the rebuild it runs writes into its    *)
(* first argument, here the transient Player).                             *)
(***************************************************************************)
\* line 41
FogApplies(me, opponent, prefs) ==
    prefs.is_visibility_applied /\ can_win(me) /\ can_win(opponent)

\* lines 46-50: the transient Player after its rebuild against me
TransientOpponent(opponent_units, opponent_walls, me, tr, prefs) ==
    _rebuild_reachable_set(
        [Player("") EXCEPT !.units = opponent_units, !.walls = opponent_walls],
        me, tr, prefs)

\* lines 58-80
GameView(me, opponent, active, shown, shown_trenches, tl, prefs) ==
    [turns_left |-> tl,
     my_turn |-> (me = active),
     me |-> [units |-> me.units, walls |-> me.walls,
             reachable |-> me.reachable, is_defeated |-> me.is_defeated],
     opponent |-> [units |-> shown.units, walls |-> shown.walls,
                   reachable |-> shown.reachable,
                   is_defeated |-> opponent.is_defeated],
     trenches |-> shown_trenches,
     preferences |-> prefs]

\* get_view that filters the opponent's own record in place and rebuilds it
get_view_filtering_in_place(player_id, active, passive, tl, tr, prefs) ==
    LET me == IF player_id = active.id THEN active ELSE passive
        opponent == IF player_id = active.id THEN passive ELSE active
        fog == FogApplies(me, opponent, prefs)
        shown == IF fog
                 THEN _rebuild_reachable_set(
                        [opponent EXCEPT !.units = @ \cap me.visible_opponent,
                                         !.walls = @ \cap me.visible_opponent],
                        me, tr, prefs)
                 ELSE opponent
    IN  [view |-> GameView(me, opponent, active, shown,
                           IF fog THEN tr \cap me.visible_terrain ELSE tr, tl, prefs),
         active_player |-> IF player_id = active.id THEN active ELSE shown,
         passive_player |-> IF player_id = active.id THEN shown ELSE passive]

\* get_view that shows every opponent wall
get_view_showing_all_walls(player_id, active, passive, tl, tr, prefs) ==
    LET me == IF player_id = active.id THEN active ELSE passive
        opponent == IF player_id = active.id THEN passive ELSE active
        fog == FogApplies(me, opponent, prefs)
        shown == IF fog
                 THEN TransientOpponent(opponent.units \cap me.visible_opponent,
                                        opponent.walls, me, tr, prefs)
                 ELSE opponent
    IN  [view |-> GameView(me, opponent, active, shown,
                           IF fog THEN tr \cap me.visible_terrain ELSE tr, tl, prefs),
         active_player |-> active,
         passive_player |-> passive]

get_view(player_id, active, passive, tl, tr, prefs) ==
    LET me == IF player_id = active.id THEN active ELSE passive
        opponent == IF player_id = active.id THEN passive ELSE active
        fog == FogApplies(me, opponent, prefs)
        shown == IF fog
                 THEN TransientOpponent(opponent.units \cap me.visible_opponent,
                                        opponent.walls \cap me.visible_opponent,
                                        me, tr, prefs)
                 ELSE opponent
    IN  [view |-> GameView(me, opponent, active, shown,
                           IF fog THEN tr \cap me.visible_terrain ELSE tr, tl, prefs),
         active_player |-> active,
         passive_player |-> passive]

(***************************************************************************)
(* Game._decrement_turns on a game record g.  A run r pairs a game with    *)
(* the log of the _make_turn calls that led to it; the bot's answers are   *)
(* the inputs, so the operators return the set of runs that can result.    *)
(***************************************************************************)
Game(active, passive, tl, tr, prefs) ==
    [active_player |-> active, passive_player |-> passive, turns_left |-> tl,
     trenches |-> tr, preferences |-> prefs]

\* one _make_turn call as the log keeps it
Resolved(cell, player, opponent, tl, t) ==
    [mover |-> player.id, cell |-> cell, turns_left |-> tl,
     before |-> [player |-> player, opponent |-> opponent],
     after |-> t]

\* BotTurn without line 110
BotTurnKeepingTurnsLeft(r, cell) ==
    LET g == r.game
        v == get_view(g.passive_player.id, g.active_player, g.passive_player,
                      g.turns_left, g.trenches, g.preferences)
        t == _make_turn(cell, v.passive_player, v.active_player,
                        g.trenches, g.preferences)
    IN  [game |-> [g EXCEPT !.passive_player = t.player,
                            !.active_player = t.opponent],
         log |-> Append(r.log, Resolved(cell, v.passive_player, v.active_player,
                                        g.turns_left, t))]

\* lines 107-110: one iteration of the bot loop that makes a move
BotTurn(r, cell) ==
    LET g == r.game
        v == get_view(g.passive_player.id, g.active_player, g.passive_player,
                      g.turns_left, g.trenches, g.preferences)
        t == _make_turn(cell, v.passive_player, v.active_player,
                        g.trenches, g.preferences)
    IN  [game |-> [g EXCEPT !.passive_player = t.player,
                            !.active_player = t.opponent,
                            !.turns_left = @ - 1],
         log |-> Append(r.log, Resolved(cell, v.passive_player, v.active_player,
                                        g.turns_left, t))]

\* lines 103-110
RECURSIVE BotLoop(_, _)
BotLoop(r, n) ==
    IF n = 0
    THEN {r}
    ELSE IF r.game.passive_player.reachable = {}
    THEN {[r EXCEPT !.game.passive_player.is_defeated = TRUE]}
    ELSE UNION {BotLoop(BotTurn(r, cell), n - 1) :
                    cell \in r.game.passive_player.reachable}

\* lines 98-100 and 111-113
Escalate(g) ==
    LET g1 == IF g.preferences.is_deathmatch
              THEN [g EXCEPT !.preferences.turn_count = @ + 1]
              ELSE g
    IN  [g1 EXCEPT !.turns_left = g1.preferences.turn_count]

\* a swap through no temporary: both roles end on the passive player
SwapRolesWithoutTemp(g) ==
    [g EXCEPT !.active_player = g.passive_player]

\* lines 115-118
SwapRoles(g) ==
    [g EXCEPT !.active_player = g.passive_player,
              !.passive_player = g.active_player]

\* lines 119-120
\* MarkDefeat looking at the wrong player's reachable set
MarkDefeatWhenOpponentStuck(g) ==
    IF g.passive_player.reachable = {} /\ ~g.passive_player.is_defeated
    THEN [g EXCEPT !.active_player.is_defeated = TRUE]
    ELSE g

MarkDefeatNever(g) == g

\* lines 119-120
MarkDefeat(g) ==
    IF g.active_player.reachable = {} /\ ~g.passive_player.is_defeated
    THEN [g EXCEPT !.active_player.is_defeated = TRUE]
    ELSE g

\* _decrement_turns without the escalation that follows the bot round
_decrement_turns_escalating_once(r) ==
    LET r1 == [r EXCEPT !.game.turns_left = @ - 1]
    IN  IF r1.game.turns_left # 0
        THEN {[r1 EXCEPT !.game = MarkDefeat(@)]}
        ELSE LET r2 == [r1 EXCEPT !.game = Escalate(@)]
             IN  IF r2.game.preferences.is_against_bot
                 THEN {[b EXCEPT !.game = MarkDefeat(
                            [b.game EXCEPT
                                !.turns_left = b.game.preferences.turn_count])] :
                          b \in BotLoop(r2, r2.game.preferences.turn_count)}
                 ELSE {[r2 EXCEPT !.game = MarkDefeat(SwapRoles(@))]}

\* _decrement_turns that ends the round after every move
_decrement_turns_ending_every_round(r) ==
    LET r2 == [r EXCEPT !.game = Escalate(@)]
    IN  IF r2.game.preferences.is_against_bot
        THEN {[b EXCEPT !.game = MarkDefeat(Escalate(@))] :
                 b \in BotLoop(r2, r2.game.preferences.turn_count)}
        ELSE {[r2 EXCEPT !.game = MarkDefeat(SwapRoles(@))]}

_decrement_turns(r) ==
    LET r1 == [r EXCEPT !.game.turns_left = @ - 1]
    IN  IF r1.game.turns_left # 0
        THEN {[r1 EXCEPT !.game = MarkDefeat(@)]}
        ELSE LET r2 == [r1 EXCEPT !.game = Escalate(@)]
             IN  IF r2.game.preferences.is_against_bot
                 THEN {[b EXCEPT !.game = MarkDefeat(Escalate(@))] :
                          b \in BotLoop(r2, r2.game.preferences.turn_count)}
                 ELSE {[r2 EXCEPT !.game = MarkDefeat(SwapRoles(@))]}

(***************************************************************************)
(* Game.make_turn.                                                         *)
(***************************************************************************)
\* IllegalTurn without the can_win test
IllegalTurnIgnoresDefeat(player_id, cell, active, passive) ==
    \/ player_id # active.id
    \/ cell \notin active.reachable

IllegalTurnIgnoresPassiveDefeat(player_id, cell, active, passive) ==
    \/ player_id # active.id
    \/ cell \notin active.reachable
    \/ ~can_win(active)

\* lines 83-90
IllegalTurn(player_id, cell, active, passive) ==
    \/ player_id # active.id
    \/ cell \notin active.reachable
    \/ ~(can_win(active) /\ can_win(passive))

\* lines 92-93
MakeTurnOutcomes(cell, g) ==
    LET t == _make_turn(cell, g.active_player, g.passive_player,
                        g.trenches, g.preferences)
    IN  _decrement_turns(
            [game |-> [g EXCEPT !.active_player = t.player,
                                !.passive_player = t.opponent],
             log |-> <<Resolved(cell, g.active_player, g.passive_player,
                                g.turns_left, t)>>])

(***************************************************************************)
(* State machine.                                                          *)
(***************************************************************************)
Returned(kind, viewer, view) == [kind |-> kind, viewer |-> viewer, view |-> view]

Constructed(prefs) ==
    /\ pc = "constructed"
    /\ preferences \in prefs
    /\ turns_left = 0
    /\ active_player = Player("p1")
    /\ passive_player = Player("p2")
    /\ trenches = {}
    /\ ret = Returned("none", "", <<>>)
    /\ resolved = <<>>
    /\ moves = 0
    /\ streak = [id |-> "", n |-> 0]

Init == Constructed(AllPreferences)

InitBoard == Constructed(BoardPreferences)

init ==
    /\ pc = "constructed"
    /\ active_player.id # passive_player.id
    /\ \E first_base_y \in FirstBaseYs(preferences),
          second_base_y \in SecondBaseYs(preferences) :
          LET b == _init_players(active_player, passive_player, preferences,
                                 first_base_y, second_base_y)
          IN  \E draw \in [TrenchCandidates(b.active, b.passive, preferences)
                              -> RandintOutcomes] :
                LET tr == _generate_trenches(b.active, b.passive, preferences, draw)
                    a == _rebuild_reachable_set(b.active, b.passive, tr, preferences)
                    p == _rebuild_reachable_set(b.passive, a, tr, preferences)
                IN  /\ trenches' = tr
                    /\ active_player' = a
                    /\ passive_player' = p
    /\ turns_left' = preferences.turn_count
    /\ pc' = "ready"
    /\ ret' = Returned("ok", "", <<>>)
    /\ UNCHANGED <<preferences, resolved, moves, streak>>

make_turn(player_id, cell) ==
    /\ pc = "ready"
    /\ IF IllegalTurn(player_id, cell, active_player, passive_player)
       THEN /\ ret' = Returned("IllegalTurn", "", <<>>)
            /\ UNCHANGED <<game_vars, resolved, moves, streak>>
       ELSE /\ \E r \in MakeTurnOutcomes(cell,
                         Game(active_player, passive_player, turns_left,
                              trenches, preferences)) :
                 /\ active_player' = r.game.active_player
                 /\ passive_player' = r.game.passive_player
                 /\ turns_left' = r.game.turns_left
                 /\ trenches' = r.game.trenches
                 /\ preferences' = r.game.preferences
                 /\ resolved' = r.log
            /\ ret' = Returned("ok", "", <<>>)
            /\ moves' = moves + 1
            /\ streak' = [id |-> player_id,
                          n |-> IF streak.id = player_id THEN streak.n + 1 ELSE 1]
    /\ UNCHANGED pc

GetView(player_id) ==
    /\ pc = "ready"
    /\ LET r == get_view(player_id, active_player, passive_player, turns_left,
                         trenches, preferences)
       IN  /\ ret' = Returned("view", player_id, r.view)
           /\ active_player' = r.active_player
           /\ passive_player' = r.passive_player
    /\ UNCHANGED <<pc, preferences, turns_left, trenches, resolved, moves, streak>>

\* a call that make_turn rejects, or one more accepted call within the bound
WithinMoves(player_id, cell, bound) ==
    IF moves < bound
    THEN TRUE
    ELSE IllegalTurn(player_id, cell, active_player, passive_player)

Next ==
    \/ init
    \/ \E player_id \in PlayerIds, cell \in Board(preferences.size) :
          WithinMoves(player_id, cell, MaxMoves) /\ make_turn(player_id, cell)

NextView ==
    \/ Next
    \/ \E player_id \in PlayerIds : GetView(player_id)

NextBoard ==
    \/ init
    \/ \E player_id \in PlayerIds, cell \in Board(preferences.size) :
          moves < MaxBoardMoves /\ make_turn(player_id, cell)

Spec == Init /\ [][Next]_vars

SpecBoard == InitBoard /\ [][NextBoard]_vars

SpecView == Init /\ [][NextView]_vars

\* Games played to the end: the boards of edge up to FullGameSize and the
\* boards whose free cells are all trenches.
FullGamePreferences ==
    {p \in AllPreferences :
        p.size <= FullGameSize \/ p.trench_density_percent = 100}

InitEnd == Constructed(FullGamePreferences)

NextEnd ==
    \/ init
    \/ \E player_id \in PlayerIds, cell \in Board(preferences.size) :
          make_turn(player_id, cell)

\* the active player submits a move that make_turn accepts: there is such a
\* move when line 83-89 lets some cell through, and the step that takes it
\* is the one that counts a move
LegalMove ==
    /\ pc = "ready"
    /\ \E cell \in Board(preferences.size) :
          ~IllegalTurn(active_player.id, cell, active_player, passive_player)
    /\ moves' = moves + 1

\* init() is called, and the active player keeps moving while it can
SpecEnd == InitEnd /\ [][NextEnd]_vars /\ WF_vars(init) /\ WF_moves(LegalMove)

(***************************************************************************)
(* Properties.                                                             *)
(***************************************************************************)
Players == {<<active_player, passive_player>>, <<passive_player, active_player>>}

\* the pairs <<player, opponent>> left by each _make_turn of the last call
Snapshots ==
    {<<resolved[i].after.player, resolved[i].after.opponent>> : i \in DOMAIN resolved}
    \cup {<<resolved[i].after.opponent, resolved[i].after.player>> : i \in DOMAIN resolved}

Owned(p) == Cardinality(p.units) + Cardinality(p.walls)

IsCapture(e) == e.cell \in e.before.opponent.units

\* C1: after init() and after every resolved move (the bot's included), no
\* player's reachable set contains one of its own units or an opponent wall.
C1_ReachableAvoidsOwnUnitsAndOpponentWalls ==
    pc = "ready" =>
        \A po \in Players \cup Snapshots :
            /\ po[1].reachable \cap po[1].units = {}
            /\ po[1].reachable \cap po[2].walls = {}

\* a rebuild met an opponent wall next to a cell it floods from
C1_Witness ==
    /\ pc = "ready" /\ moves > 0
    /\ \E po \in Players :
          \E w \in po[2].walls, u \in po[1].units \cup po[1].walls :
              w \in get_adjacent_cells(preferences, u) /\ po[1].reachable # {}

C3_IllegalTurnRejectedWithoutEffect ==
    [][/\ moves' # moves =>
            \* the call was accepted: streak'.id is its player_id and the
            \* first resolved move is its cell
            /\ streak'.id = active_player.id
            /\ resolved'[1].cell \in active_player.reachable
            /\ ~active_player.is_defeated
            /\ ~passive_player.is_defeated
       /\ (pc = "ready" /\ ret'.kind = "IllegalTurn") =>
            UNCHANGED <<game_vars, resolved, moves, streak>>
      ]_vars

\* a call was rejected although the active player named a reachable cell
C3_Witness ==
    /\ ret.kind = "IllegalTurn"
    /\ passive_player.is_defeated
    /\ active_player.reachable # {}

\* C4: a resolved move onto an opponent unit removes exactly that cell from
\* the opponent's units and adds exactly that cell to the mover's walls; and
\* no resolved move lowers |units| + |walls| summed over both players.
C4_CaptureMovesOneCellAndTerritoryNeverShrinks ==
    \A i \in DOMAIN resolved :
        LET e == resolved[i]
        IN  /\ IsCapture(e) =>
                /\ e.after.opponent.units = e.before.opponent.units \ {e.cell}
                /\ e.after.player.walls = e.before.player.walls \cup {e.cell}
                /\ e.cell \notin e.before.player.walls
                /\ e.after.player.units = e.before.player.units
                /\ e.after.opponent.walls = e.before.opponent.walls
            /\ Owned(e.after.player) + Owned(e.after.opponent)
                  >= Owned(e.before.player) + Owned(e.before.opponent)

\* the bot captured a unit of the human player
C4_Witness ==
    \E i \in DOMAIN resolved :
        /\ IsCapture(resolved[i])
        /\ resolved[i].mover = passive_player.id
        /\ preferences.is_against_bot

\* C5: the trench set init() produces contains the point mirror of each of
\* its cells, for every size, base placement, density and outcome of the
\* draws; and no step after init() changes the trench set.
C5_TrenchesPointSymmetricAndFixed ==
    /\ [](pc = "ready" =>
            \A c \in trenches : get_symmetric_cell(preferences, c) \in trenches)
    /\ [][pc = "ready" => trenches' = trenches]_vars

\* a board of even edge with a trench whose mirror is another cell, after a move
C5_Witness ==
    /\ pc = "ready" /\ moves > 0
    /\ preferences.size = MaxBoardSize
    /\ \E c \in trenches : get_symmetric_cell(preferences, c) # c

Accepted == moves' # moves

\* C6: roles are exchanged only by an accepted move of a game without bot
\* that ends a round; with turn_count = n and no deathmatch the exchange
\* happens exactly on the mover's n-th consecutive accepted move, which
\* resets turns_left to n, and any other accepted move keeps the roles and
\* takes one from turns_left; against the bot the roles never change.
C6_RolesSwapAtRoundBoundariesOnly ==
    [][LET n == preferences.turn_count
           exchanged == /\ active_player'.id = passive_player.id
                        /\ passive_player'.id = active_player.id
           kept == /\ active_player'.id = active_player.id
                   /\ passive_player'.id = passive_player.id
       IN  /\ exchanged \/ kept
           /\ exchanged =>
                /\ Accepted
                /\ ~preferences.is_against_bot
                /\ turns_left = 1
                /\ turns_left' = preferences'.turn_count
           /\ (Accepted /\ ~preferences.is_against_bot
                        /\ ~preferences.is_deathmatch) =>
                IF streak'.n = n
                THEN exchanged /\ turns_left' = n
                ELSE kept /\ turns_left' = turns_left - 1
           /\ preferences.is_against_bot => kept
      ]_vars

\* the second of two moves per round has just handed the turn over
C6_Witness ==
    /\ ~preferences.is_against_bot /\ ~preferences.is_deathmatch
    /\ preferences.turn_count = 2
    /\ streak.n = 2 /\ streak.id = passive_player.id
    /\ turns_left = 2

\* C7: under deathmatch an accepted move that ends the round raises
\* turn_count by one in a game between humans and by two against the bot
\* (once before the bot round, once after it), leaving turns_left equal to
\* it; the bot round played in between has at most turn_count + 1 moves;
\* nothing else changes turn_count, and without deathmatch it never changes.
C7_DeathmatchEscalation ==
    [][IF Accepted /\ preferences.is_deathmatch /\ turns_left = 1
       THEN /\ preferences'.turn_count = preferences.turn_count
                    + (IF preferences.is_against_bot THEN 2 ELSE 1)
            /\ turns_left' = preferences'.turn_count
            /\ Len(resolved') - 1 <= (IF preferences.is_against_bot
                                      THEN preferences.turn_count + 1 ELSE 0)
       ELSE preferences'.turn_count = preferences.turn_count
      ]_vars

\* from turn_count 1: one human move, two bot moves, turn_count 3
C7_Witness ==
    /\ preferences.is_deathmatch /\ preferences.is_against_bot
    /\ moves = 1 /\ Len(resolved) = 3
    /\ preferences.turn_count = 3 /\ turns_left = 3

Viewer == IF ret.viewer = active_player.id THEN active_player ELSE passive_player

Viewed == IF ret.viewer = active_player.id THEN passive_player ELSE active_player

\* the view the viewer gets when the opponent holds the given units and walls
ViewWith(units, walls) ==
    LET other == [Viewed EXCEPT !.units = units, !.walls = walls]
    IN  get_view(ret.viewer,
                 IF ret.viewer = active_player.id THEN active_player ELSE other,
                 IF ret.viewer = active_player.id THEN other ELSE passive_player,
                 turns_left, trenches, preferences).view

\* C8: a get_view call changes no field of the game or of the two players,
\* and a get_view call that directly follows one by the same player returns
\* the same view.
C8_GetViewReadOnlyAndIdempotent ==
    [][ret'.kind = "view" =>
          /\ UNCHANGED <<game_vars, pc, resolved, moves, streak>>
          /\ (ret.kind = "view" /\ ret.viewer = ret'.viewer) => ret'.view = ret.view
      ]_vars

\* a view under fog of war whose opponent estimate differs from the
\* opponent's stored reachable set
C8_Witness ==
    /\ ret.kind = "view"
    /\ preferences.is_visibility_applied
    /\ ~active_player.is_defeated /\ ~passive_player.is_defeated
    /\ ret.view.opponent.reachable # Viewed.reachable
    /\ moves > 0

\* C9: a view shows the viewer's own units, walls and reachable set as they
\* are; under fog of war with no player defeated it shows exactly the
\* opponent units and walls inside the viewer's visible_opponent and the
\* trenches inside its visible_terrain, and it is the same view whatever the
\* opponent holds outside visible_opponent; otherwise it shows the
\* opponent's units, walls and reachable set and all trenches as they are.
C9_ViewShowsOnlyWhatTheViewerKnows ==
    ret.kind = "view" =>
        LET v == ret.view
            known == Viewer.visible_opponent
            hidden == Board(preferences.size) \ known
        IN  /\ v.me.units = Viewer.units
            /\ v.me.walls = Viewer.walls
            /\ v.me.reachable = Viewer.reachable
            /\ IF /\ preferences.is_visibility_applied
                  /\ ~active_player.is_defeated /\ ~passive_player.is_defeated
               THEN /\ v.opponent.units = Viewed.units \cap known
                    /\ v.opponent.walls = Viewed.walls \cap known
                    /\ v.trenches = trenches \cap Viewer.visible_terrain
                    /\ v = ViewWith(Viewed.units \cap known, Viewed.walls \cap known)
                    /\ \A c \in hidden :
                          /\ v = ViewWith((Viewed.units \ {c}), Viewed.walls \cup {c})
                          /\ v = ViewWith(Viewed.units \cup {c}, Viewed.walls \ {c})
                          /\ v = ViewWith(Viewed.units \ {c}, Viewed.walls \ {c})
               ELSE /\ v.opponent.units = Viewed.units
                    /\ v.opponent.walls = Viewed.walls
                    /\ v.opponent.reachable = Viewed.reachable
                    /\ v.trenches = trenches

\* under fog of war the opponent holds a wall and a unit the viewer does not
\* know and a cell the viewer does know
C9_Witness ==
    /\ ret.kind = "view"
    /\ preferences.is_visibility_applied
    /\ ~active_player.is_defeated /\ ~passive_player.is_defeated
    /\ Viewed.walls \ Viewer.visible_opponent # {}
    /\ Viewed.units \ Viewer.visible_opponent # {}
    /\ ret.view.opponent.units \cup ret.view.opponent.walls # {}

\* the least set holding p's units and every wall of p next to a cell of it
RECURSIVE Connected(_, _)
Connected(p, C) ==
    LET more == {w \in p.walls \ C :
                    \E c \in C : w \in get_adjacent_cells(preferences, c)}
    IN  IF more = {} THEN C ELSE Connected(p, C \cup more)

ReferenceReachable(p, o) ==
    LET C == Connected(p, p.units)
    IN  {c \in Board(preferences.size) :
            /\ \E s \in C : c \in get_adjacent_cells(preferences, s)
            /\ c \notin C /\ c \notin p.walls /\ c \notin p.units
            /\ c \notin o.walls}

\* C10: for each player p and opponent o, in every reachable state and after
\* every resolved move, the rebuild computes exactly the cells next to the
\* connected set of p (its units and the walls chained to them) that are
\* outside that set, outside p's walls and units and outside o's walls; and
\* right after init() a player's reachable set is the set of neighbours of
\* its bases that are not its bases.
C10_RebuildMatchesReference ==
    pc = "ready" =>
        /\ \A po \in Players \cup Snapshots :
              _rebuild_reachable_set(po[1], po[2], trenches, preferences).reachable
                  = ReferenceReachable(po[1], po[2])
        /\ moves = 0 =>
              \A po \in Players :
                  po[1].reachable =
                      {c \in Board(preferences.size) :
                          /\ c \notin po[1].units
                          /\ \E b \in po[1].units :
                                c \in get_adjacent_cells(preferences, b)}

\* a cell is reachable through a wall only, and a wall only through a wall
C10_Witness ==
    /\ pc = "ready"
    /\ \E po \in Players :
          /\ \E c \in po[1].reachable :
                \A u \in po[1].units : c \notin get_adjacent_cells(preferences, u)
          /\ \E w \in po[1].walls :
                /\ w \in Connected(po[1], po[1].units)
                /\ \A u \in po[1].units : w \notin get_adjacent_cells(preferences, u)

\* C11: after init() and after every resolved move, each player's stored
\* reachable set is the one a full rebuild from the current units and walls
\* would compute (the trench and expand branches, which do not rebuild the
\* opponent, included).
C11_StoredReachableNeverStale ==
    pc = "ready" =>
        \A po \in Players \cup Snapshots :
            po[1].reachable =
                _rebuild_reachable_set(po[1], po[2], trenches, preferences).reachable

\* a trench was claimed that the opponent could reach, and an expansion was
\* made next to a cell of the opponent
C11_Witness ==
    /\ \E i \in DOMAIN resolved :
          /\ resolved[i].cell \in trenches
          /\ resolved[i].cell \in resolved[i].before.opponent.reachable
    /\ moves > 1

\* the round goes on after the step: turns_left was not 1 before it
RoundGoesOn == Accepted /\ turns_left # 1

\* C12 as stated: an accepted move that leaves turns_left above zero only
\* takes one from turns_left: turn_count, the roles and both is_defeated
\* flags are as before.
C12_AsStated ==
    [][RoundGoesOn =>
          /\ turns_left' = turns_left - 1
          /\ preferences' = preferences
          /\ active_player'.id = active_player.id
          /\ passive_player'.id = passive_player.id
          /\ active_player'.is_defeated = active_player.is_defeated
          /\ passive_player'.is_defeated = passive_player.is_defeated
      ]_vars

\* C12 amended: an accepted move that leaves turns_left above zero takes one
\* from turns_left, resolves no bot move and keeps turn_count, the roles and
\* the passive player's is_defeated flag; the active player is marked
\* defeated exactly when the move left its reachable set empty.
C12_RoundGoesOn ==
    [][RoundGoesOn =>
          /\ turns_left' = turns_left - 1
          /\ preferences' = preferences
          /\ Len(resolved') = 1
          /\ active_player'.id = active_player.id
          /\ passive_player'.id = passive_player.id
          /\ passive_player'.is_defeated = passive_player.is_defeated
          /\ active_player'.is_defeated = (active_player'.reachable = {})
      ]_vars

\* a move in mid-round left the mover without a reachable cell
C12_Witness ==
    /\ active_player.is_defeated
    /\ turns_left # preferences.turn_count
    /\ streak.id = active_player.id

\* C13: against the bot, the accepted move that ends the human round is
\* followed in the same call by the bot's moves: at most turn_count of them
\* (the value after the deathmatch escalation), each resolved with the
\* passive player as mover on a cell of its reachable set as it stands at
\* that moment, the turns_left handed to the policy counting down from
\* turn_count; the bot stops short exactly when its reachable set is empty
\* before a move and is then marked defeated; a move that does not end the
\* round is followed by no bot move; and the call returns with turns_left
\* equal to turn_count.
C13_BotRound ==
    [][(Accepted /\ preferences.is_against_bot) =>
          LET ends == turns_left = 1
              n == IF ends
                   THEN preferences.turn_count
                            + (IF preferences.is_deathmatch THEN 1 ELSE 0)
                   ELSE 0
              log == resolved'
              k == Len(log) - 1
              bot_after(i) == IF i = 1 THEN log[1].after.opponent
                              ELSE log[i].after.player
              human_after(i) == IF i = 1 THEN log[1].after.player
                                ELSE log[i].after.opponent
          IN  /\ k <= n
              /\ \A i \in 2..Len(log) :
                    /\ log[i].mover = passive_player.id
                    /\ log[i].before.player = bot_after(i - 1)
                    /\ log[i].before.opponent = human_after(i - 1)
                    /\ log[i].cell \in log[i].before.player.reachable
                    /\ log[i].turns_left = n - (i - 2)
              /\ passive_player'.is_defeated = (k < n)
              /\ k < n => bot_after(Len(log)).reachable = {}
              /\ passive_player'.id = passive_player.id
              /\ passive_player' = [bot_after(Len(log)) EXCEPT !.is_defeated = (k < n)]
              /\ ends => turns_left' = preferences'.turn_count
      ]_vars

\* the bot has made the two moves of its round, with turns_left 2 and then 1
C13_Witness ==
    /\ preferences.is_against_bot /\ ~preferences.is_deathmatch
    /\ Len(resolved) = 3
    /\ resolved[2].turns_left = 2 /\ resolved[3].turns_left = 1
    /\ resolved[3].mover = passive_player.id
    /\ turns_left = 2

UnclaimedNeighbours(cell, player, opponent) ==
    get_adjacent_cells(preferences, cell)
        \ (player.units \cup player.walls \cup opponent.units \cup opponent.walls)

\* C15: every resolved move is one of three cases, tested in this order: on
\* an opponent unit the unit becomes a wall of the mover; on a trench cell
\* the cell joins the mover's walls, units stay and the cell leaves the
\* opponent's reachable set; otherwise the cell joins the mover's units,
\* walls stay and the mover's reachable set holds the unclaimed neighbours
\* of the cell. No other cell changes its membership in the units and walls
\* of either player, and the trench set stays as it is.
C15_MoveCases ==
    /\ [](\A i \in DOMAIN resolved :
            LET e == resolved[i]
                b == e.before
                a == e.after
                rest(S) == S \ {e.cell}
            IN  /\ rest(a.player.units) = rest(b.player.units)
                /\ rest(a.player.walls) = rest(b.player.walls)
                /\ rest(a.opponent.units) = rest(b.opponent.units)
                /\ rest(a.opponent.walls) = rest(b.opponent.walls)
                /\ e.cell \notin b.player.units \cup b.player.walls \cup b.opponent.walls
                /\ e.cell \notin a.opponent.units \cup a.opponent.walls
                /\ IF e.cell \in b.opponent.units
                   THEN /\ e.cell \in a.player.walls
                        /\ e.cell \notin a.player.units
                   ELSE IF e.cell \in trenches
                   THEN /\ e.cell \in a.player.walls
                        /\ a.player.units = b.player.units
                        /\ a.opponent.units = b.opponent.units
                        /\ a.opponent.reachable = b.opponent.reachable \ {e.cell}
                   ELSE /\ e.cell \in a.player.units
                        /\ a.player.walls = b.player.walls
                        /\ a.opponent.units = b.opponent.units
                        /\ UnclaimedNeighbours(e.cell, a.player, a.opponent)
                              \subseteq a.player.reachable)
    /\ [][pc = "ready" => trenches' = trenches]_vars

\* one call resolved a capture, a trench and an expansion with unclaimed
\* neighbours
C15_Witness ==
    /\ \E i \in DOMAIN resolved : IsCapture(resolved[i])
    /\ \E i \in DOMAIN resolved :
          ~IsCapture(resolved[i]) /\ resolved[i].cell \in trenches
    /\ \E i \in DOMAIN resolved :
          /\ ~IsCapture(resolved[i]) /\ resolved[i].cell \notin trenches
          /\ UnclaimedNeighbours(resolved[i].cell, resolved[i].after.player,
                                 resolved[i].after.opponent) # {}

PlayerById(id) == IF active_player.id = id THEN active_player ELSE passive_player

\* C16: under fog of war, after init() and after every resolved move, a
\* player's visible_opponent holds every opponent wall that is not a trench
\* cell and every cell of the player's reachable set; its visible_terrain
\* holds trench cells only, holds the mirror of each of its cells, and never
\* loses a cell.
C16_FogKnowledge ==
    /\ []((pc = "ready" /\ preferences.is_visibility_applied) =>
            \A po \in Players \cup Snapshots :
                /\ po[2].walls \ trenches \subseteq po[1].visible_opponent
                /\ po[1].reachable \subseteq po[1].visible_opponent
                /\ po[1].visible_terrain \subseteq trenches
                /\ \A c \in po[1].visible_terrain :
                      get_symmetric_cell(preferences, c) \in po[1].visible_terrain)
    /\ [][\A id \in PlayerIds :
             PlayerById(id).visible_terrain \subseteq PlayerById(id)'.visible_terrain
         ]_vars

\* under fog of war a player knows a trench it is not next to, and its
\* opponent holds a wall won by a capture
C16_Witness ==
    /\ preferences.is_visibility_applied
    /\ \E po \in Players :
          /\ po[2].walls \ trenches # {}
          /\ po[1].visible_terrain
                \ AdjacentTo(po[1].units \cup po[1].walls, preferences) # {}

\* C17 as stated: after init() the active player's bases are in column 1,
\* the passive player's in column size and the point mirrors of the active
\* player's; without is_double_base each player has one base, and with it
\* each player has two distinct bases, with or without random bases and for
\* every outcome of the draws.
C17_AsStated ==
    (pc = "ready" /\ moves = 0) =>
        LET size == preferences.size
            bases == IF preferences.is_double_base THEN 2 ELSE 1
        IN  /\ active_player.units \subseteq {1} \X (1..size)
            /\ passive_player.units \subseteq {size} \X (1..size)
            /\ passive_player.units =
                  {get_symmetric_cell(preferences, c) : c \in active_player.units}
            /\ Cardinality(active_player.units) = bases
            /\ Cardinality(passive_player.units) = bases

\* C18: the two players are never both defeated; an is_defeated flag that is
\* set stays set; and once a player is defeated no make_turn call changes
\* the game.
C18_DefeatIsFinal ==
    /\ [](~(active_player.is_defeated /\ passive_player.is_defeated))
    /\ [][\A id \in PlayerIds :
             PlayerById(id).is_defeated => PlayerById(id)'.is_defeated]_vars
    /\ [][(pc = "ready"
             /\ (active_player.is_defeated \/ passive_player.is_defeated)) =>
             UNCHANGED <<game_vars, resolved, moves, streak>>]_vars

\* the active player named a cell it can reach after the bot was defeated,
\* and the call was rejected
C18_Witness ==
    /\ preferences.is_against_bot
    /\ passive_player.is_defeated
    /\ ~active_player.is_defeated
    /\ active_player.reachable # {}
    /\ ret.kind = "IllegalTurn"
    /\ moves > 1

\* C19: a player whose is_defeated flag is set has an empty reachable set,
\* the bot marked in its round and the active player marked at the end of
\* the round bookkeeping alike.
C19_DefeatedHasNoMove ==
    \A po \in Players : po[1].is_defeated => po[1].reachable = {}

\* a player was marked defeated while its opponent still has a reachable cell
C19_Witness ==
    \E po \in Players :
        /\ po[1].is_defeated
        /\ po[2].reachable # {}
        /\ po[2].units # {}
        /\ po[1].units # {}

\* the measure of a position: cells held, walls counted twice
Measure(player, opponent) ==
    Owned(player) + Owned(opponent)
        + Cardinality(player.walls) + Cardinality(opponent.walls)

\* C20: every resolved move (human or bot) raises the measure
\* (|units| + |walls|) + |walls|, summed over both players, and removes no
\* wall; the measure never exceeds twice the number of cells; and in a game
\* whose active player keeps submitting moves that make_turn accepts, a
\* player is eventually defeated, with or without bot and deathmatch.
C20_EveryGameEnds ==
    /\ [](\A i \in DOMAIN resolved :
            LET b == resolved[i].before
                a == resolved[i].after
            IN  /\ Measure(a.player, a.opponent) > Measure(b.player, b.opponent)
                /\ b.player.walls \subseteq a.player.walls
                /\ b.opponent.walls \subseteq a.opponent.walls)
    /\ [](Measure(active_player, passive_player)
              <= 2 * preferences.size * preferences.size)
    /\ [][moves' # moves => moves' <= Measure(active_player, passive_player)']_vars
    /\ <>(active_player.is_defeated \/ passive_player.is_defeated)

\* a game on a board of edge 3 ended after more accepted moves than turns
\* of a round, with captures and trenches on the way
C20_Witness ==
    /\ active_player.is_defeated \/ passive_player.is_defeated
    /\ preferences.size = 3
    /\ moves > MaxMoves
    /\ active_player.walls \cap trenches # {}
    /\ (active_player.walls \cup passive_player.walls) \ trenches # {}

====
